---- MODULE Spec2Model ----
(***************************************************************************)
(* Model of QuestionnaireAnalysis (hw5_q1.py): one object owning a table   *)
(* (self.data) read from a JSON file, and five analysis operations over    *)
(* it.  A table is a sequence of rows; every row carries its index label   *)
(* (zero based, as pandas' RangeIndex).  Numbers are exact rationals.      *)
(* The pandas behaviour modelled is that of the 1.x line the code was      *)
(* written for: chained assignment df[col][i] = v writes through to df,    *)
(* replace() soft-converts the columns it touched to float and returns a   *)
(* new frame, and groupby().mean() leaves out non-numeric columns.         *)
(***************************************************************************)
EXTENDS Integers, Sequences, FiniteSets, TLC

VARIABLES data, pc, df, arr, qi, pending, last, args, out

vars == <<data, pc, df, arr, qi, pending, last, args, out>>

(***************************************************************************)
(* Bounds of the model.                                                    *)
(***************************************************************************)
MaxRows == 2
MaxGroupRows == 3
MaxNansArg == 6

(* None, the unset self.data: the empty tuple (no table of the model is   *)
(* empty, read_data loads at least one row).                               *)
None == <<>>

(***************************************************************************)
(* Exact rational arithmetic for the float columns.                        *)
(***************************************************************************)
Abs(x) == IF x < 0 THEN -x ELSE x

RECURSIVE GCD(_, _)
GCD(a, b) == IF b = 0 THEN a ELSE GCD(b, a % b)

Num(n, d) ==
  LET g == GCD(Abs(n), d)
  IN  [t |-> "num", n |-> n \div g, d |-> d \div g]

Whole(n) == Num(n, 1)
NaN == [t |-> "NaN", n |-> 0, d |-> 1]
StrNan == [t |-> "str", n |-> 0, d |-> 1]
NA == [t |-> "NA", n |-> 0, d |-> 1]

IsNum(c) == c.t = "num"
isna(c) == c.t = "NaN"

Add(x, y) == Num(x.n * y.d + y.n * x.d, x.d * y.d)
Less(x, y) == x.n * y.d < y.n * x.d
LessEq(x, y) == x.n * y.d <= y.n * x.d
Floor(x) == Whole(x.n \div x.d)

RECURSIVE Pow10(_)
Pow10(k) == IF k = 0 THEN 1 ELSE 10 * Pow10(k - 1)

RECURSIVE SumSeq(_)
SumSeq(s) == IF s = <<>> THEN Whole(0) ELSE Add(Head(s), SumSeq(Tail(s)))

NotNa(s) == SelectSeq(s, IsNum)

(* numpy's around: rint(x * 10^decimals) / 10^decimals, halves to even.    *)
Round(x, decimals) ==
  IF ~IsNum(x) THEN x
  ELSE LET p == Pow10(decimals)
           lo == (x.n * p) \div x.d
           r2 == 2 * ((x.n * p) % x.d)
           up == r2 > x.d \/ (r2 = x.d /\ lo % 2 = 1)
       IN  Num(IF up THEN lo + 1 ELSE lo, p)

(***************************************************************************)
(* Text: a string is a sequence of one-character strings.                  *)
(***************************************************************************)
Str(s) == [t |-> "str", s |-> s]
NoStr == [t |-> "NaN", s |-> <<>>]

Contains(s, sub) ==
  \E i \in 1..(Len(s) - Len(sub) + 1) : SubSeq(s, i, i + Len(sub) - 1) = sub

StartsWith(s, prefix) ==
  Len(s) >= Len(prefix) /\ SubSeq(s, 1, Len(prefix)) = prefix

(* The text a regular expression made of plain and backslash-escaped       *)
(* characters matches: the backslash goes, the character after it stays.   *)
RECURSIVE RegexLiteral(_)
RegexLiteral(pat) ==
  IF pat = <<>> THEN <<>>
  ELSE IF Head(pat) = "\\" /\ Len(pat) >= 2
       THEN <<pat[2]>> \o RegexLiteral(Tail(Tail(pat)))
       ELSE <<Head(pat)>> \o RegexLiteral(Tail(pat))

RECURSIVE Occurrences(_, _)
Occurrences(s, sub) ==
  IF Len(s) < Len(sub) THEN 0
  ELSE IF SubSeq(s, 1, Len(sub)) = sub
       THEN 1 + Occurrences(SubSeq(s, Len(sub) + 1, Len(s)), sub)
       ELSE Occurrences(Tail(s), sub)

(* Series.str.contains(pat, na): pat is a regular expression.              *)
str_contains(e, pat, na) ==
  IF e.t = "str" THEN Contains(e.s, RegexLiteral(pat)) ELSE na

(* Series.str.startswith(pat, na): pat is taken literally.                 *)
str_startswith(e, pat, na) ==
  IF e.t = "str" THEN StartsWith(e.s, pat) ELSE na

(* Series.str.count(pat): -1 stands for the NaN of a missing text, which   *)
(* equals no count.                                                        *)
str_count(e, pat) ==
  IF e.t = "str" THEN Occurrences(e.s, RegexLiteral(pat)) ELSE -1

(***************************************************************************)
(* Tables.                                                                 *)
(***************************************************************************)
questions == 1..5

Row(age, email, gender, q) ==
  [index |-> 0, id |-> 0, age |-> age, email |-> email, gender |-> gender, q |-> q]

(* pd.DataFrame(json.loads(...)): rows in file order, RangeIndex 0..n-1.   *)
DataFrame(rows) ==
  [i \in 1..Len(rows) |-> [rows[i] EXCEPT !.index = i - 1, !.id = i]]

RECURSIVE SelectFrom(_, _, _)
SelectFrom(t, mask, i) ==
  IF i > Len(t) THEN <<>>
  ELSE (IF mask[i] THEN <<t[i]>> ELSE <<>>) \o SelectFrom(t, mask, i + 1)

(* t[mask]: the rows whose mask entry is true, labels kept.                *)
BoolIndex(t, mask) == SelectFrom(t, mask, 1)

reset_index_keep(t) ==
  [i \in 1..Len(t) |-> [t[i] EXCEPT !.index = i - 1, !.id = t[i].index]]

(* reset_index(drop=True): labels 0..n-1, the old labels are dropped.      *)
reset_index(t) == [i \in 1..Len(t) |-> [t[i] EXCEPT !.index = i - 1]]

Mask(t, P(_)) == [i \in 1..Len(t) |-> P(t[i].email)]

(***************************************************************************)
(* remove_rows_without_mail                                                *)
(***************************************************************************)
At == <<"@">>
EscDot == <<"\\", ".">>
AtEscDot == <<"@", "\\", ".">>

HasAt(e) == str_contains(e, At, FALSE)
HasDot(e) == str_contains(e, EscDot, FALSE)
NoAtDot(e) == ~str_contains(e, AtEscDot, FALSE)
NoLeadingAt(e) == ~str_startswith(e, At, FALSE)
NoLeadingEscDot(e) == ~str_startswith(e, EscDot, FALSE)
OneAt(e) == str_count(e, At) = 1

RemoveRowsWithoutMail(t) ==
  LET d1 == BoolIndex(t, Mask(t, HasAt))
      d2 == BoolIndex(d1, Mask(d1, HasDot))
      d3 == BoolIndex(d2, Mask(d2, NoAtDot))
      d4 == BoolIndex(d3, Mask(d3, NoLeadingAt))
      d5 == BoolIndex(d4, Mask(d4, NoLeadingEscDot))
      d6 == BoolIndex(d5, Mask(d5, OneAt))
  IN  reset_index(d6)

(***************************************************************************)
(* replace("nan", np.nan)                                                  *)
(***************************************************************************)
nan_text == <<"n", "a", "n">>

replace_cell(c) == IF c = StrNan THEN NaN ELSE c

replace_row(r) ==
  [r EXCEPT !.age = replace_cell(r.age),
            !.email = IF r.email = Str(nan_text) THEN NoStr ELSE r.email,
            !.q = [k \in questions |-> replace_cell(r.q[k])]]

replace_inplace(t) ==
  [self |-> [i \in 1..Len(t) |-> replace_row(t[i])],
   new |-> [i \in 1..Len(t) |-> replace_row(t[i])]]

(* DataFrame.replace("nan", np.nan), inplace=False: the frame it is called *)
(* on (self) keeps its values, the result (new) is another frame with the  *)
(* text "nan" replaced by NaN in every column.                             *)
replace(t) ==
  [self |-> t, new |-> [i \in 1..Len(t) |-> replace_row(t[i])]]

(***************************************************************************)
(* fill_na_with_mean                                                       *)
(***************************************************************************)
NumQuestions == 5
RoundGrades == 2

mean_strict(s) ==
  IF \E i \in 1..Len(s) : ~IsNum(s[i]) THEN NaN
  ELSE Num(SumSeq(s).n, SumSeq(s).d * Len(s))

mean_fixed_len(s) ==
  LET p == NotNa(s)
  IN  IF p = <<>> THEN NaN ELSE Num(SumSeq(p).n, SumSeq(p).d * Len(s))

(* np.mean of a Series is Series.mean, skipna=True: the mean of the values *)
(* that are not NaN, NaN when there is none.                               *)
mean(s) ==
  LET p == NotNa(s)
  IN  IF p = <<>> THEN NaN ELSE Num(SumSeq(p).n, SumSeq(p).d * Len(p))

(* this_list: the questions but the one being filled, in order.            *)
this_list(question) ==
  SelectSeq(<<1, 2, 3, 4, 5>>, LAMBDA k : k # question)

(* df[mask].index for mask = df[question].isna(): ascending labels.        *)
RECURSIVE na_index(_, _, _)
na_index(t, question, i) ==
  IF i > Len(t) THEN <<>>
  ELSE (IF isna(t[i].q[question]) THEN <<t[i].index>> ELSE <<>>)
         \o na_index(t, question, i + 1)

(* df[question][index] = np.mean(df[this_list].iloc[index])                *)
fill_one(t, question, index) ==
  LET others == [j \in 1..(NumQuestions - 1) |-> t[index + 1].q[this_list(question)[j]]]
  IN  [t EXCEPT ![index + 1].q[question] = mean(others)]

RECURSIVE insert(_, _)
insert(x, s) ==
  IF s = <<>> THEN <<x>>
  ELSE IF x <= Head(s) THEN <<x>> \o s ELSE <<Head(s)>> \o insert(x, Tail(s))

RECURSIVE sorted(_)
sorted(s) == IF s = <<>> THEN <<>> ELSE insert(Head(s), sorted(Tail(s)))

unique_keep(s) == s

(* np.unique of a sorted array: one copy of each value, ascending.         *)
RECURSIVE unique(_)
unique(s) ==
  IF Len(s) <= 1 THEN s
  ELSE IF s[1] = s[2] THEN unique(Tail(s)) ELSE <<s[1]>> \o unique(Tail(s))

round_questions(t, decimals) ==
  [i \in 1..Len(t) |->
     [t[i] EXCEPT !.q = [k \in questions |-> Round(t[i].q[k], decimals)]]]

(***************************************************************************)
(* score_subjects                                                          *)
(***************************************************************************)
UInt8Max == 255

(* np.nanmean(axis=1) of one row.                                          *)
nanmean(s) == mean(s)

floor(c) == IF IsNum(c) THEN Floor(c) ELSE c

(* row[questions].count(): the values that are not NaN.                    *)
count(s) == Len(NotNa(s))

(* astype('UInt8'): NaN and pd.NA become <NA>; a whole number of 0..255    *)
(* is kept; anything else raises.                                          *)
astype_UInt8(c) ==
  IF c.t \in {"NaN", "NA"} THEN NA
  ELSE IF c.d = 1 /\ 0 <= c.n /\ c.n <= UInt8Max THEN c
  ELSE [t |-> "TypeError", n |-> 0, d |-> 1]

score_le(q, maximal_nans_per_sub) ==
  astype_UInt8(IF count(q) <= NumQuestions - maximal_nans_per_sub
               THEN NA ELSE floor(nanmean(q)))

(* The score of one row of df1 (after replace): lines 116-121.             *)
score(q, maximal_nans_per_sub) ==
  astype_UInt8(IF count(q) < NumQuestions - maximal_nans_per_sub
               THEN NA ELSE floor(nanmean(q)))

with_score(r, s) ==
  [f \in DOMAIN r \cup {"score"} |-> IF f = "score" THEN s ELSE r[f]]

ScoreSubjects(df1, maximal_nans_per_sub) ==
  [i \in 1..Len(df1) |-> with_score(df1[i], score(df1[i].q, maximal_nans_per_sub))]

(***************************************************************************)
(* correlate_gender_age                                                    *)
(***************************************************************************)
AgeLimit == 40
RoundMeans == 8

dropna_age(t) == BoolIndex(t, [i \in 1..Len(t) |-> ~isna(t[i].age)])

above_limit_strict(x) == IF ~Less(Whole(AgeLimit), x) THEN FALSE ELSE TRUE

(* lambda x: False if x < 40 else True                                     *)
above_limit(x) == IF Less(x, Whole(AgeLimit)) THEN FALSE ELSE TRUE

RECURSIVE column(_, _, _)
column(t, k, i) ==
  IF i > Len(t) THEN <<>> ELSE <<t[i].q[k]>> \o column(t, k, i + 1)

CorrelateGenderAge(df0) ==
  LET d1 == reset_index(dropna_age(df0))
      d2 == [i \in 1..Len(d1) |-> [gender |-> d1[i].gender,
                                   age |-> above_limit(d1[i].age),
                                   q |-> d1[i].q]]
      keys == {<<d2[i].gender, d2[i].age>> : i \in 1..Len(d2)}
      group(g) == SelectSeq(d2, LAMBDA r : <<r.gender, r.age>> = g)
  IN  [g \in keys |->
         [k \in questions |-> Round(mean(column(group(g), k, 1)), RoundMeans)]]

(***************************************************************************)
(* show_age_distrib                                                        *)
(***************************************************************************)
NumBins == 10
BinWidth == 10
BinSpan == 9

(* astype('float'): numbers stay, None and the text "nan" become NaN.      *)
astype_float(c) == IF IsNum(c) THEN c ELSE NaN

value_counts_bins_open(ages, lo, hi) ==
  LET n == Len(SelectSeq(ages,
             LAMBDA a : IsNum(a) /\ Less(Whole(lo), a) /\ LessEq(a, Whole(hi))))
  IN  IF n = 0 THEN <<>> ELSE <<n>>

(* Series.value_counts(bins=[lo, hi], dropna=True): pd.cut with            *)
(* include_lowest=True, so the one interval is [lo, hi]; NaN is in no      *)
(* interval; a result whose counts are all 0 is returned empty.            *)
value_counts_bins(ages, lo, hi) ==
  LET n == Len(SelectSeq(ages,
             LAMBDA a : IsNum(a) /\ LessEq(Whole(lo), a) /\ LessEq(a, Whole(hi))))
  IN  IF n = 0 THEN <<>> ELSE <<n>>

ShowAgeDistrib(t) ==
  LET age_data == [i \in 1..Len(t) |-> astype_float(t[i].age)]
      counts(i) == value_counts_bins(age_data, BinWidth * i, BinWidth * i + BinSpan)
  IN  [hist |-> [k \in 1..NumBins |->
                   IF Len(counts(k - 1)) > 0 THEN counts(k - 1)[1] ELSE 0],
       bins |-> [k \in 1..(NumBins + 1) |-> BinWidth * (k - 1)]]

(***************************************************************************)
(* The tables read_data may load.                                          *)
(***************************************************************************)
Emails ==
  {NoStr,
   Str(<<>>),
   Str(<<"a">>),
   Str(<<"a", ".", "a">>),
   Str(<<"a", "@", "a">>),
   Str(<<"a", "b", "c", "@", "c", "o", "m">>),
   Str(<<"a", "@", ".", "a">>),
   Str(<<"a", "@", ".", "c", "o", "m">>),
   Str(<<"@", "a", ".", "a">>),
   Str(<<"@", "a", "b", "c", ".", "c", "o", "m">>),
   Str(<<".", "a", "@", "a">>),
   Str(<<".", "a", "@", "a", ".", "a">>),
   Str(<<"\\", ".", "a", "@", "a">>),
   Str(<<"a", "@", "a", ".", "a">>),
   Str(<<"a", ".", "@">>),
   Str(<<"a", ".", "b", "@", "c", ".", "c", "o", "m">>),
   Str(<<"a", "@", "@", "a", ".", "a">>),
   Str(<<"a", "@", "a", "@", "a", ".", "a">>),
   Str(<<"a", ".", "a", "@">>)}


DefaultAge == Whole(30)
DefaultEmail == Str(<<"a", ".", "b", "@", "c", ".", "c", "o", "m">>)
DefaultQ == <<Whole(3), Whole(4), Whole(5), Whole(6), Whole(8)>>

MailRows == {Row(DefaultAge, e, "Male", DefaultQ) : e \in Emails}

Ages ==
  {NaN, StrNan, Num(19, 2), Whole(100)}
    \cup {Whole(10 * i) : i \in 0..9} \cup {Whole(10 * i + 9) : i \in 0..9}

AgeRows == {Row(a, DefaultEmail, "Male", DefaultQ) : a \in Ages}

(* DefaultQ with the questions of a set missing: as the text "nan" in the  *)
(* odd columns, as null in the even ones.                                  *)
Missing(S) ==
  [k \in questions |-> IF k \in S THEN (IF k % 2 = 1 THEN StrNan ELSE NaN)
                       ELSE DefaultQ[k]]

ScoreVectors ==
  {Missing(S) : S \in SUBSET questions}
    \cup {<<NaN, Whole(2), Whole(4), Whole(6), Whole(8)>>,
          <<Num(5, 2), StrNan, Whole(4), NaN, Whole(1)>>}

PairedVectors ==
  {Missing(S) : S \in {{}, {1}, {2}, {5}, {1, 2}, {4, 5}, {2, 4}, {1, 3, 5},
                       {2, 3, 4, 5}, questions}}
    \cup {<<NaN, Whole(2), Whole(4), Whole(6), Whole(8)>>}

(* Every pattern of missing questions for a table of one row, a choice of *)
(* them for the longer tables.                                             *)
ScoreRows == {Row(DefaultAge, DefaultEmail, "Male", q) : q \in ScoreVectors}

PairedRows == {Row(DefaultAge, DefaultEmail, "Male", q) : q \in PairedVectors}

GroupVectors ==
  {<<Whole(1), Whole(2), Whole(3), Whole(4), Whole(4)>>,
   <<Whole(2), StrNan, NaN, Whole(3), Whole(5)>>}

(* gender is always present (it is the one field of a record the data      *)
(* model does not let be missing).                                         *)
GroupRows ==
  {Row(a, DefaultEmail, g, q) :
     a \in {NaN, StrNan, Whole(39), Whole(40)}, g \in {"Female", "Male"},
     q \in GroupVectors}

MixedRows ==
  {Row(Whole(30), DefaultEmail, "Male", DefaultQ),
   Row(StrNan, Str(<<"a", "@", ".", "a">>), "Female", Missing({1, 3})),
   Row(Whole(40), Str(nan_text), "Female", Missing({2})),
   Row(NaN, NoStr, "Male", Missing(questions))}

(***************************************************************************)
(* State machine.  data is self.data; df, arr, qi and pending are the      *)
(* locals of a running fill_na_with_mean (the frame, the indices collected,*)
(* the question of the outer loop, the indices the inner loop has yet to   *)
(* visit); last, args and out are the last call, its arguments and its     *)
(* return value.                                                           *)
(***************************************************************************)
Init ==
  /\ data = None
  /\ pc = "idle"
  /\ df = None
  /\ arr = <<>>
  /\ qi = 0
  /\ pending = <<>>
  /\ last = "__init__"
  /\ args = <<>>
  /\ out = None

fill_locals == <<df, arr, qi, pending>>

(* The operation op has returned and its value is in out.                  *)
Returned(op) == pc = "idle" /\ last = op

(* The file holds 1..maxrows records drawn from rowset.                    *)
read_data(rowset, maxrows) ==
  /\ pc = "idle"
  /\ data = None
  /\ \E n \in 1..maxrows : \E rows \in [1..n -> rowset] : data' = DataFrame(rows)
  /\ last' = "read_data"
  /\ UNCHANGED <<pc, args, out, fill_locals>>

show_age_distrib ==
  /\ pc = "idle"
  /\ data # None
  /\ out' = ShowAgeDistrib(data)
  /\ last' = "show_age_distrib"
  /\ args' = <<>>
  /\ UNCHANGED <<data, pc, fill_locals>>

remove_rows_without_mail ==
  /\ pc = "idle"
  /\ data # None
  /\ out' = RemoveRowsWithoutMail(data)
  /\ last' = "remove_rows_without_mail"
  /\ args' = <<>>
  /\ UNCHANGED <<data, pc, fill_locals>>

(* Lines 81-83: the call, up to the loop over the questions.               *)
fill_na_with_mean ==
  /\ pc = "idle"
  /\ data # None
  /\ data' = replace(data).self
  /\ df' = replace(data).new
  /\ arr' = <<>>
  /\ qi' = 0
  /\ pending' = <<>>
  /\ pc' = "fill"
  /\ last' = "fill_na_with_mean"
  /\ args' = <<>>
  /\ UNCHANGED out

(* Lines 84-88: the next question, once the inner loop is through.         *)
fill_question ==
  /\ pc = "fill"
  /\ pending = <<>>
  /\ qi < NumQuestions
  /\ qi' = qi + 1
  /\ arr' = arr \o na_index(df, qi + 1, 1)
  /\ pending' = na_index(df, qi + 1, 1)
  /\ UNCHANGED <<data, pc, df, last, args, out>>

(* Lines 89-90: one pass of the inner loop.                                *)
fill_index ==
  /\ pc = "fill"
  /\ pending # <<>>
  /\ df' = fill_one(df, qi, Head(pending))
  /\ pending' = Tail(pending)
  /\ UNCHANGED <<data, pc, arr, qi, last, args, out>>

(* Lines 91-93: rounding and return.                                       *)
fill_return ==
  /\ pc = "fill"
  /\ pending = <<>>
  /\ qi = NumQuestions
  /\ out' = [df |-> round_questions(df, RoundGrades), arr |-> unique(sorted(arr))]
  /\ pc' = "idle"
  /\ df' = None
  /\ arr' = <<>>
  /\ qi' = 0
  /\ UNCHANGED <<data, pending, last, args>>

score_subjects ==
  /\ pc = "idle"
  /\ data # None
  /\ \E maximal_nans_per_sub \in (-1)..MaxNansArg :
       /\ args' = <<maximal_nans_per_sub>>
       /\ out' = ScoreSubjects(replace(data).new, maximal_nans_per_sub)
  /\ data' = replace(data).self
  /\ last' = "score_subjects"
  /\ UNCHANGED <<pc, fill_locals>>

correlate_gender_age ==
  /\ pc = "idle"
  /\ data # None
  /\ out' = CorrelateGenderAge(replace(data).new)
  /\ data' = replace(data).self
  /\ last' = "correlate_gender_age"
  /\ args' = <<>>
  /\ UNCHANGED <<pc, fill_locals>>

Next ==
  \/ read_data(MixedRows, MaxRows)
  \/ show_age_distrib
  \/ remove_rows_without_mail
  \/ fill_na_with_mean
  \/ fill_question
  \/ fill_index
  \/ fill_return
  \/ score_subjects
  \/ correlate_gender_age

Spec == Init /\ [][Next]_vars

NextMail ==
  \/ read_data(MailRows, MaxRows)
  \/ remove_rows_without_mail

SpecMail == Init /\ [][NextMail]_vars

NextAge ==
  \/ read_data(AgeRows, MaxRows)
  \/ show_age_distrib

SpecAge == Init /\ [][NextAge]_vars

NextScore ==
  \/ read_data(ScoreRows, 1)
  \/ read_data(PairedRows, MaxRows)
  \/ fill_na_with_mean
  \/ fill_question
  \/ fill_index
  \/ fill_return
  \/ score_subjects

SpecScore == Init /\ [][NextScore]_vars

NextGroup ==
  \/ read_data(GroupRows, MaxGroupRows)
  \/ correlate_gender_age

SpecGroup == Init /\ [][NextGroup]_vars

(***************************************************************************)
(* Claims about remove_rows_without_mail.                                  *)
(***************************************************************************)
(* The validity predicate as the documentation states it, on plain text.   *)
ValidEmail(e) ==
  /\ e.t = "str"
  /\ Cardinality({i \in 1..Len(e.s) : e.s[i] = "@"}) = 1
  /\ \E i \in 1..Len(e.s) : e.s[i] = "."
  /\ ~\E i \in 1..(Len(e.s) - 1) : e.s[i] = "@" /\ e.s[i + 1] = "."
  /\ (Len(e.s) > 0 => e.s[1] # "@" /\ e.s[1] # ".")

ValidRow(r) == ValidEmail(r.email)

(* C1: the filter returns exactly the rows with a valid email (one "@", a  *)
(* ".", no "@.", no leading "@" or "."), in order, renumbered 0..n-1.      *)
C1_FilterKeepsExactlyValid ==
  Returned("remove_rows_without_mail") =>
    /\ Len(out) = Len(SelectSeq(data, ValidRow))
    /\ \A i \in 1..Len(out) :
         out[i] = [SelectSeq(data, ValidRow)[i] EXCEPT !.index = i - 1]

(* C9: filtering the filter's own output returns that output unchanged.    *)
C9_FilterIdempotent ==
  Returned("remove_rows_without_mail") => RemoveRowsWithoutMail(out) = out

C9_Witness ==
  /\ Returned("remove_rows_without_mail")
  /\ Len(data) = 2
  /\ Len(out) = 1
  /\ out[1].id = 2
  /\ out[1].index = 0


(***************************************************************************)
(* Claims about show_age_distrib.                                          *)
(***************************************************************************)
RECURSIVE Total(_)
Total(s) == IF s = <<>> THEN 0 ELSE Head(s) + Total(Tail(s))

HasAge(r) == r.age.t = "num"

RowsWithAgeIn(t, lo, hi) ==
  {i \in 1..Len(t) :
     HasAge(t[i]) /\ lo * t[i].age.d <= t[i].age.n /\ t[i].age.n <= hi * t[i].age.d}

(* C2: the ten counts sum to the number of rows with a non-missing age.    *)
C2_CountsSumToRowsWithAge ==
  Returned("show_age_distrib") =>
    Total(out.hist) = Cardinality({i \in 1..Len(data) : HasAge(data[i])})

(* C3: the edges are 0,10,...,100 and counts[i] is the number of rows      *)
(* whose age is present and lies in [10*i, 10*i+9]; 0 when there is none.  *)
C3_HistogramBins ==
  Returned("show_age_distrib") =>
    /\ out.bins = <<0, 10, 20, 30, 40, 50, 60, 70, 80, 90, 100>>
    /\ Len(out.hist) = 10
    /\ \A i \in 0..9 :
         out.hist[i + 1] = Cardinality(RowsWithAgeIn(data, 10 * i, 10 * i + 9))

C3_Witness ==
  /\ Returned("show_age_distrib")
  /\ Len(data) = 2
  /\ data[1].age = Whole(40)
  /\ data[2].age = NaN
  /\ out.hist[5] = 1
  /\ out.hist[4] = 0


(***************************************************************************)
(* Claims about score_subjects.                                            *)
(***************************************************************************)
Present(q) == SelectSeq(q, IsNum)

HasMissing(q) == \E k \in questions : ~IsNum(q[k])

(* The mean of the values of a non-empty sequence of numbers.              *)
ExactMean(p) == Num(SumSeq(p).n, SumSeq(p).d * Len(p))

(* C4: the score is missing when fewer than 5 - maxMissing of q1..q5 are   *)
(* present (the text "nan" counts as missing) or none is, and otherwise    *)
(* the mean of the present values rounded down.                            *)
C4_ScoreRule ==
  Returned("score_subjects") =>
    /\ Len(out) = Len(data)
    /\ \A i \in 1..Len(data) :
         LET p == Present(data[i].q)
         IN  out[i].score =
               IF Len(p) < 5 - args[1] \/ p = <<>> THEN NA
               ELSE Whole(SumSeq(p).n \div (SumSeq(p).d * Len(p)))

C4_Witness ==
  /\ Returned("score_subjects")
  /\ args = <<1>>
  /\ Len(data) = 2
  /\ data[1].q = Missing({5})
  /\ out[1].score = Whole(4)
  /\ data[2].q = Missing({4, 5})
  /\ out[2].score = NA

(***************************************************************************)
(* Claims about fill_na_with_mean.                                         *)
(***************************************************************************)
Others(t, r, k) == Present([j \in 1..4 |-> t[r].q[IF j < k THEN j ELSE j + 1]])

MissingRows(t, k) == {i \in 1..Len(t) : ~IsNum(t[i].q[k])}

C6_ImputedIndices ==
  Returned("fill_na_with_mean") =>
    /\ \A n \in 1..(Len(out.arr) - 1) : out.arr[n] < out.arr[n + 1]
    /\ {out.arr[n] : n \in 1..Len(out.arr)}
         = {i - 1 : i \in {j \in 1..Len(data) : HasMissing(data[j].q)}}

C6_Witness ==
  /\ Returned("fill_na_with_mean")
  /\ Len(data) = 2
  /\ data[1].q = Missing({5})
  /\ data[2].q = Missing({4, 5})
  /\ out.arr = <<0, 1>>

(* C10: in a row with a present score every imputed value is the mean of   *)
(* the scores the row had, however many were missing, so the table is the  *)
(* one a row by row computation gives.                                     *)
C10_ImputedIsRowMean ==
  /\ pc = "fill" =>
       \A i \in 1..Len(data) : \A k \in questions :
         (~IsNum(data[i].q[k]) /\ Present(data[i].q) # <<>>) =>
           /\ IsNum(df[i].q[k]) => df[i].q[k] = ExactMean(Present(data[i].q))
           /\ (qi > k \/ (qi = k /\ \A n \in 1..Len(pending) : pending[n] # i - 1))
                => IsNum(df[i].q[k])
  /\ Returned("fill_na_with_mean") =>
       \A i \in 1..Len(data) : \A k \in questions :
         out.df[i].q[k] =
           IF IsNum(data[i].q[k]) THEN data[i].q[k]
           ELSE IF Present(data[i].q) = <<>> THEN NaN
           ELSE Round(ExactMean(Present(data[i].q)), 2)

C10_Witness ==
  /\ pc = "fill"
  /\ qi = 5
  /\ pending = <<>>
  /\ data[1].q = Missing({1, 2, 4})
  /\ df[1].q = <<Num(13, 2), Num(13, 2), Whole(5), Num(13, 2), Whole(8)>>

(***************************************************************************)
(* Claims about correlate_gender_age.                                      *)
(***************************************************************************)
InGroup(r, g) ==
  /\ IsNum(r.age)
  /\ r.gender = g[1]
  /\ g[2] = (r.age.n >= 40 * r.age.d)

ObservedGroups ==
  {<<data[i].gender, data[i].age.n >= 40 * data[i].age.d>> :
     i \in {j \in 1..Len(data) : IsNum(data[j].age)}}

GroupValues(g, k) ==
  LET rows == SelectSeq(data, LAMBDA r : InGroup(r, g))
  IN  Present([i \in 1..Len(rows) |-> rows[i].q[k]])

Scale8 == Pow10(8)

(* v is the multiple of 10^-8 nearest to m.                                *)
RoundedTo8(v, m) ==
  /\ IsNum(v)
  /\ Scale8 % v.d = 0
  /\ 2 * Abs(v.n * (Scale8 \div v.d) * m.d - m.n * Scale8) <= m.d

C8_DataUnchanged == [][data # None => data' = data]_vars

C8_Witness ==
  /\ Returned("fill_na_with_mean")
  /\ \E i \in 1..Len(data) : \E k \in questions :
       data[i].q[k] = StrNan /\ IsNum(out.df[i].q[k])

====
